---- MODULE Spec2Model ----
(***************************************************************************)
(* A model of BlockPyFeedback (src/src/feedback.js): the object that owns  *)
(* the feedback area of BlockPy.  The state is the feedback area (title,   *)
(* body, the "original error" panel), the error status of the model, the   *)
(* reports and suppressions of model.execution, the content and classes of *)
(* the area's own element (tag), and the calls the last operation made to  *)
(* its collaborators (editor, printer, server, the trace table of          *)
(* model.execution).  There is one action per method of                    *)
(* BlockPyFeedback.prototype that changes any of these.                    *)
(*                                                                         *)
(* Not modelled: the calls to console, and the two methods that only read  *)
(* or scroll the page (scrollIntoView, isFeedbackVisible).                 *)
(***************************************************************************)
EXTENDS Integers, Sequences, FiniteSets, TLC

VARIABLES
    title,          \* this.title      (html of .blockpy-feedback-title)
    body,           \* this.body       (html of .blockpy-feedback-body)
    original,       \* this.original   (html of .blockpy-feedback-original)
    originalShown,  \* this.original   (visible after show(), hidden after hide())
    status,         \* this.main.model.status.error
    reports,        \* this.main.model.execution.reports
    suppressions,   \* this.main.model.execution.suppressions
    editor,         \* calls the last operation made to main.components.editor
    printer,        \* calls the last operation made to main.components.printer
    server,         \* calls the last operation made to main.components.server
    trace,          \* calls the last operation made to the trace table of model.execution
    tag,            \* this.tag : its content once replaced, and its alert classes
    op,             \* the last operation and its arguments
    ret,            \* what the last operation returned
    repeated        \* the last operation repeated the one before it, arguments included

vars == <<title, body, original, originalShown, status, reports, suppressions,
          editor, printer, server, trace, tag, op, ret, repeated>>

(***************************************************************************)
(* JavaScript values.  A value is a record with a type tag; n holds a      *)
(* number, s a string.                                                     *)
(***************************************************************************)
jsNum(n) == [t |-> "number", n |-> n, s |-> ""]
jsStr(str) == [t |-> "string", n |-> 0, s |-> str]
jsNull == [t |-> "null", n |-> 0, s |-> ""]
jsUndefined == [t |-> "undefined", n |-> 0, s |-> ""]
jsNaN == [t |-> "NaN", n |-> 0, s |-> ""]

\* v - 1 : null converts to 0, undefined to NaN.
jsMinusOne(v) ==
    IF v.t = "number" THEN jsNum(v.n - 1)
    ELSE IF v.t = "null" THEN jsNum(0 - 1)
    ELSE jsNaN

\* "" + v : the text a value contributes to a string concatenation.
jsToString(v) ==
    IF v.t = "string" THEN v.s
    ELSE IF v.t = "number" THEN ToString(v.n)
    ELSE IF v.t = "null" THEN "null"
    ELSE IF v.t = "undefined" THEN "undefined"
    ELSE "NaN"

\* As jsTruthy, were a value tested with v !== "" : undefined passes.
jsNotEmptyString(v) == v # jsStr("")

\* if (v) : the empty string, 0, NaN, null and undefined are falsy.
jsTruthy(v) ==
    IF v.t = "string" THEN v.s # ""
    ELSE IF v.t = "number" THEN v.n # 0
    ELSE FALSE

UpperCaseLetters == "ABCDEFGHIJKLMNOPQRSTUVWXYZ"
LowerCaseLetters == "abcdefghijklmnopqrstuvwxyz"

\* The lower-case letter of each upper-case letter.
lowerCaseOf ==
    [c \in { SubSeq(UpperCaseLetters, i, i) : i \in 1..Len(UpperCaseLetters) } |->
        LET i == CHOOSE k \in 1..Len(UpperCaseLetters) : SubSeq(UpperCaseLetters, k, k) = c
        IN  SubSeq(LowerCaseLetters, i, i)]

RECURSIVE toLowerCase(_)
toLowerCase(str) ==
    IF str = "" THEN ""
    ELSE LET c == SubSeq(str, 1, 1)
         IN  (IF c \in DOMAIN lowerCaseOf THEN lowerCaseOf[c] ELSE c)
                 \o toLowerCase(SubSeq(str, 2, Len(str)))

(***************************************************************************)
(* Calls to the collaborators.                                             *)
(***************************************************************************)
unhighlightLines == [fn |-> "unhighlightLines", line |-> jsUndefined]
highlightError(line) == [fn |-> "highlightError", line |-> line]
resetPrinter == [fn |-> "resetPrinter", text |-> ""]
print(text) == [fn |-> "print", text |-> text]
logEvent(args) == args
show_trace(shown) == [fn |-> "show_trace", step |-> "", shown |-> shown]
trace_step(step) == [fn |-> "trace_step", step |-> step, shown |-> FALSE]

(***************************************************************************)
(* The methods, as functions from the object (m) to the object after the   *)
(* call.  m.ret is the return value; "undefined" stands for no value.      *)
(***************************************************************************)
\* Also the handler of a click on .blockpy-feedback-trace (line 21).
\* The step shown is execution.last_step(), whatever its value.
buildTraceTable(m) ==
    [m EXCEPT !.trace = @ \o <<show_trace(TRUE), trace_step("last_step()")>>,
              !.server = Append(@, logEvent(<<"editor", "trace">>)),
              !.ret = "undefined"]

clear(m, printerArg) ==
    [m EXCEPT !.title = "Ready",
              !.originalShown = FALSE,
              !.body = "",
              !.status = "none",
              !.editor = Append(@, unhighlightLines),
              !.printer = IF printerArg THEN Append(@, resetPrinter) ELSE @,
              !.ret = "undefined"]

clearEditorErrors(m) ==
    IF m.status = "editor" THEN clear(m, FALSE) ELSE [m EXCEPT !.ret = "undefined"]

\* An error is either a string (isString, text) or an object: a Skulpt
\* exception with tp$str (hasTpStr, text = tp$str().v) or a plain Error
\* (name, message).
prettyPrintError(error) ==
    IF error.isString THEN error.text
    ELSE IF error.hasTpStr THEN error.text
    ELSE error.name \o ": " \o error.message

editorError(m, originalArg, message, line) ==
    LET o == prettyPrintError(originalArg)
    IN  [m EXCEPT !.title = "Editor Error",
                  !.originalShown = TRUE,
                  !.original = o,
                  !.body = message,
                  !.status = "editor",
                  !.editor = Append(@, highlightError(jsMinusOne(line))),
                  !.server = Append(@, logEvent(<<"feedback", "Editor Error",
                                                  o \o "\n|\n" \o message>>)),
                  !.ret = "undefined"]

complete(m) ==
    [m EXCEPT !.title = "Complete!",
              !.originalShown = FALSE,
              !.body = "Great work!",
              !.status = "complete",
              !.editor = Append(@, unhighlightLines),
              !.server = Append(@, logEvent(<<"feedback", "Success">>)),
              !.ret = "undefined"]

finished(m) ==
    [m EXCEPT !.title = "Ran",
              !.originalShown = FALSE,
              !.body = "Your program ran successfully, without any errors. However, this problem does not have a correct solution. When you are satisfied with your program, you may stop working.",
              !.status = "no errors",
              !.editor = Append(@, unhighlightLines),
              !.server = Append(@, logEvent(<<"feedback", "Finished">>)),
              !.ret = "undefined"]

noErrors(m) ==
    [m EXCEPT !.title = "Ran",
              !.originalShown = FALSE,
              !.body = "No errors reported. View your output on the left.",
              !.status = "no errors",
              !.editor = Append(@, unhighlightLines),
              !.server = Append(@, logEvent(<<"feedback", "No Errors", "">>)),
              !.ret = "undefined"]

syntaxError(m, originalArg, message, line) ==
    LET o == prettyPrintError(originalArg)
    IN  [m EXCEPT !.title = "Syntax Error",
                  !.originalShown = TRUE,
                  !.original = o,
                  !.body = message,
                  !.status = "syntax",
                  !.editor = Append(@, highlightError(jsMinusOne(line))),
                  !.printer = Append(@, print("Execution stopped - there was an error!")),
                  !.server = Append(@, logEvent(<<"feedback", "Syntax Error",
                                                  o \o "\n|\n" \o message>>)),
                  !.ret = "undefined"]

semanticError(m, name, message, line) ==
    [m EXCEPT !.title = name,
              !.originalShown = FALSE,
              !.body = message,
              !.status = "semantic",
              !.editor = IF line # jsNull
                         THEN Append(@, highlightError(jsMinusOne(line)))
                         ELSE @,
              !.printer = Append(@, print("Execution stopped - there was an error!")),
              !.server = Append(@, logEvent(<<"feedback", "Semantic Error",
                                              name \o "\n|\n" \o message>>)),
              !.ret = "undefined"]

internalError(m, originalArg, name, message) ==
    LET o == prettyPrintError(originalArg)
    IN  [m EXCEPT !.title = name,
                  !.originalShown = TRUE,
                  !.original = o,
                  !.body = message,
                  !.status = "internal",
                  !.printer = Append(@, print("Internal error! Please show this to an instructor!")),
                  !.server = Append(@, logEvent(<<"feedback", "Internal Error",
                                        name \o "\n|\n" \o o \o "\n|\n" \o message>>)),
                  !.ret = "undefined"]

instructorFeedback(m, name, message, line) ==
    [m EXCEPT !.title = name,
              !.originalShown = FALSE,
              !.body = message,
              !.status = "feedback",
              !.editor = IF line # jsUndefined /\ line # jsNull
                         THEN Append(@, highlightError(jsMinusOne(line)))
                         ELSE @,
              !.server = Append(@, logEvent(<<"feedback", "Instructor Feedback",
                                    name \o "\n|\n" \o "\n|\n" \o message>>)),
              !.ret = "undefined"]

emptyProgram(m) ==
    [m EXCEPT !.title = "Blank Program",
              !.originalShown = FALSE,
              !.original = "",
              !.body = "You have not written any code yet.",
              !.status = "runtime",
              !.server = Append(@, logEvent(<<"feedback", "Empty Program">>)),
              !.ret = "undefined"]

\* arr[k] of a JavaScript array held as a sequence: undefined past its end.
jsIndex(arr, k) == IF k + 1 <= Len(arr) THEN arr[k + 1] ELSE jsUndefined

\* error.args.v is error.args; args.v[3][2] is error.excerpt;
\* EXTENDED_ERROR_EXPLANATION[error.tp$name] is error.extended (undefined when
\* the table, which lives outside this file, has no entry for the name).
printError(m, error) ==
    LET o == prettyPrintError(error)
        text ==
            IF error.tpname = "ParseError"
            THEN "While attempting to convert the Python code into blocks, I found a syntax error. In other words, your Python code has a spelling or grammatical mistake. You should check to make sure that you have written all of your code correctly. To me, it looks like the problem is on line "
                     \o jsToString(jsIndex(error.args, 2))
                     \o ", where it says:<br><code>" \o jsToString(error.excerpt) \o "</code>"
            ELSE IF /\ error.isNameError
                    /\ Len(error.args) > 0
                    /\ jsIndex(error.args, 0) = jsStr("name '___' is not defined")
            THEN "You have incomplete blocks. Make sure that you do not have any dangling blocks or blocks that are connected incorrectly.<br><br>If you look at the text view of your Python code, you'll see <code>___</code> in the code. The converter will create these <code>___</code> to show that you have a block that's missing a piece."
            ELSE IF error.extended # jsUndefined
            THEN jsToString(error.extended)
            ELSE error.enhanced
    IN  [m EXCEPT !.title = error.tpname,
                  !.originalShown = TRUE,
                  !.original = o,
                  !.body = text,
                  !.status = "runtime",
                  !.editor = IF error.hasTraceback /\ Len(error.traceback) # 0
                             THEN Append(@, highlightError(jsMinusOne(jsNum(error.traceback[1].lineno))))
                             ELSE @,
                  !.server = Append(@, logEvent(<<"feedback", "Runtime", o>>)),
                  !.ret = "undefined"]

\* As presentInstructorError, were a line adjusted to 0 taken for an error of
\* the feedback engine (<= for < at line 314).
presentInstructorErrorZeroIsEngine(m) ==
    LET instructor == m.reports.instructor
        error == instructor.error
    IN  IF ~error.hasTraceback
        THEN [internalError(m, error, "Instructor Feedback Error",
                  "Error in instructor feedback. Please show the above message to an instructor!")
                EXCEPT !.ret = "instructor"]
        ELSE IF error.traceback[1].filename = "__main__.py"
        THEN [printError(m, error) EXCEPT !.ret = "student"]
        ELSE IF error.traceback[1].filename = instructor.filename
        THEN LET adjusted == error.traceback[1].lineno - instructor.line_offset
                 lineno == IF adjusted <= 0 THEN adjusted + instructor.line_offset
                           ELSE adjusted
                 error2 == [error EXCEPT !.traceback[1].lineno = lineno]
                 m2 == [m EXCEPT !.reports.instructor.error = error2]
             IN  IF adjusted <= 0
                 THEN [internalError(m2, error2, "Feedback Engine Error",
                           "Error in BlockPy's feedback generation. Please show the above message to an instructor so they can contact a developer!")
                         EXCEPT !.ret = "instructor"]
                 ELSE [internalError(m2, error2, "Instructor Feedback Error",
                           "Error in instructor feedback. Please show the above message to an instructor!")
                         EXCEPT !.ret = "instructor"]
        ELSE [m EXCEPT !.ret = "instructor"]

presentInstructorError(m) ==
    LET instructor == m.reports.instructor
        error == instructor.error
    IN  IF ~error.hasTraceback
        THEN [internalError(m, error, "Instructor Feedback Error",
                  "Error in instructor feedback. Please show the above message to an instructor!")
                EXCEPT !.ret = "instructor"]
        ELSE IF error.traceback[1].filename = "__main__.py"
        THEN [printError(m, error) EXCEPT !.ret = "student"]
        ELSE IF error.traceback[1].filename = instructor.filename
        THEN LET adjusted == error.traceback[1].lineno - instructor.line_offset
                 lineno == IF adjusted < 0 THEN adjusted + instructor.line_offset
                           ELSE adjusted
                 error2 == [error EXCEPT !.traceback[1].lineno = lineno]
                 m2 == [m EXCEPT !.reports.instructor.error = error2]
             IN  IF adjusted < 0
                 THEN [internalError(m2, error2, "Feedback Engine Error",
                           "Error in BlockPy's feedback generation. Please show the above message to an instructor so they can contact a developer!")
                         EXCEPT !.ret = "instructor"]
                 ELSE [internalError(m2, error2, "Instructor Feedback Error",
                           "Error in instructor feedback. Please show the above message to an instructor!")
                         EXCEPT !.ret = "instructor"]
        ELSE [m EXCEPT !.ret = "instructor"]

\* As presentFeedback, were the return of line 350 missing and the error of a
\* failed instructor stage presented after the message (lines 382-384).
presentFeedbackThenInstructorError(m, category, label, message, line) ==
    LET m1 == clear(m, FALSE)
        m2 == [m1 EXCEPT
                !.title = IF toLowerCase(category) = "instructor" /\ toLowerCase(label) = "explain"
                          THEN "Instructor Feedback"
                          ELSE label,
                !.body = message,
                !.status = IF category = "Instructor" /\ label = "No errors"
                           THEN "no errors"
                           ELSE category,
                !.editor = IF line # jsNull /\ line # jsUndefined
                           THEN Append(@, highlightError(jsMinusOne(line)))
                           ELSE @,
                !.server = Append(@, logEvent(<<"feedback", category \o "|" \o label, message>>)),
                !.ret = "undefined"]
    IN  IF ~m.reports.instructor.success
        THEN [presentInstructorError(m2) EXCEPT !.ret = "undefined"]
        ELSE m2

\* Lines 329-350: the method returns at line 350, before the cascade that
\* follows it in the source (lines 352-434), so it reads neither the reports
\* nor the suppressions and returns no value.
presentFeedback(m, category, label, message, line) ==
    LET m1 == clear(m, FALSE)
    IN  [m1 EXCEPT
            !.title = IF toLowerCase(category) = "instructor" /\ toLowerCase(label) = "explain"
                      THEN "Instructor Feedback"
                      ELSE label,
            !.body = message,
            !.status = IF category = "Instructor" /\ label = "No errors"
                       THEN "no errors"
                       ELSE category,
            !.editor = IF line # jsNull /\ line # jsUndefined
                       THEN Append(@, highlightError(jsMinusOne(line)))
                       ELSE @,
            !.server = Append(@, logEvent(<<"feedback", category \o "|" \o label, message>>)),
            !.ret = "undefined"]

\* Sk.ffi.remapToJs(skulptError.args) is skulptError.args.
convertSkulptSyntax(m, skulptError) ==
    LET convertedError == skulptError.args
        codeLine == IF Len(convertedError) > 3 /\ jsTruthy(jsIndex(convertedError, 4))
                    THEN ", where it says:<br><code>"
                             \o jsToString(jsIndex(convertedError, 4)) \o "</code>"
                    ELSE "."
    IN  editorError(m, skulptError,
            "While attempting to process your Python code, I found a syntax error. In other words, your Python code has a mistake in it (e.g., mispelled a keyword, bad indentation, unnecessary symbol). You should check to make sure that you have written all of your code correctly. To me, it looks like the problem is on line "
                \o jsToString(jsIndex(convertedError, 2)) \o codeLine,
            jsIndex(convertedError, 2))

OPERATION_DESCRIPTION(key) ==
    IF key = jsStr("Pow") THEN jsStr("an exponent")
    ELSE IF key = jsStr("Add") THEN jsStr("an addition")
    ELSE IF key = jsStr("Mult") THEN jsStr("a multiplication")
    ELSE IF key = jsStr("Sub") THEN jsStr("a subtraction")
    ELSE IF key = jsStr("Div") THEN jsStr("a division")
    ELSE IF key = jsStr("Mod") THEN jsStr("a modulo")
    ELSE jsUndefined

TYPE_DESCRIPTION(key) ==
    IF key = jsStr("Num") THEN jsStr("a number")
    ELSE IF key = jsStr("Str") THEN jsStr("a string")
    ELSE IF key = jsStr("Tuple") THEN jsStr("a tuple")
    ELSE IF key = jsStr("List") THEN jsStr("a list")
    ELSE IF key = jsStr("Bool") THEN jsStr("a boolean")
    ELSE IF key = jsStr("File") THEN jsStr("a file")
    ELSE IF key = jsStr("None") THEN jsStr("a None")
    ELSE IF key = jsStr("Set") THEN jsStr("a set")
    ELSE IF key = jsStr("Function") THEN jsStr("a function")
    ELSE jsUndefined

\* As isReported, were the suppression of the kind not read.
isReportedThoughSuppressed(suppress, report, kind) ==
    Len(report.kinds[kind]) >= 1

\* As firstFinding, were the last finding of the kind taken.
lastFinding(report, kind) == report.kinds[kind][Len(report.kinds[kind])]

\* !suppress[kind] && report[kind].length >= 1
isReported(suppress, report, kind) ==
    kind \notin suppress.kinds /\ Len(report.kinds[kind]) >= 1

\* report[kind][0]
firstFinding(report, kind) == report.kinds[kind][1]

\* True with the presentation made, or false with none.  suppressions.analyzer
\* is true (all) or a map from issue kind to boolean (kinds: the kinds mapped
\* to true); report[kind] is the array of findings of the kind.
presentAnalyzerFeedback(m) ==
    LET report == m.reports.analyzer.issues
        suppress == m.suppressions.analyzer
        no == [m EXCEPT !.ret = "false"]
        yes(name, message, line) ==
            [semanticError(m, name, message, line) EXCEPT !.ret = "true"]
        fires(kind) == isReported(suppress, report, kind)
        first(kind) == firstFinding(report, kind)
        ln(kind) == jsToString(first(kind).line)
        nm(kind) == jsToString(first(kind).name)
    IN  IF ~report.defined THEN no
        ELSE IF suppress.all THEN no
        ELSE IF fires("Action after return")
        THEN yes("Action after return",
                 "You performed an action after already returning from a function, on line "
                     \o ln("Action after return") \o ". You can only return on a path once.",
                 first("Action after return").line)
        ELSE IF fires("Return outside function")
        THEN yes("Return outside function",
                 "You attempted to return outside of a function on line "
                     \o ln("Return outside function")
                     \o ". But you can only return from within a function.",
                 first("Return outside function").line)
        ELSE IF fires("Unconnected blocks")
        THEN yes("Unconnected blocks",
                 "It looks like you have unconnected blocks on line "
                     \o ln("Unconnected blocks")
                     \o ". Before you run your program, you must make sure that all of your blocks are connected and that there are no unfilled holes.",
                 first("Unconnected blocks").line)
        ELSE IF fires("Iteration variable is iteration list")
        THEN yes("Iteration Problem",
                 "The variable <code>" \o nm("Iteration variable is iteration list")
                     \o "</code> was iterated on line "
                     \o ln("Iteration variable is iteration list")
                     \o ", but you used the same variable as the iteration variable. You should choose a different variable name for the iteration variable. Usually, the iteration variable is the singular form of the iteration list (e.g., <code>for dog in dogs:</code>).",
                 first("Iteration variable is iteration list").line)
        ELSE IF fires("Undefined variables")
        THEN yes("Initialization Problem",
                 "The variable <code>" \o nm("Undefined variables")
                     \o "</code> was used on line " \o ln("Undefined variables")
                     \o ", but it was not given a value on a previous line. You cannot use a variable until it has been given a value.",
                 first("Undefined variables").line)
        ELSE IF fires("Possibly undefined variables")
        THEN IF first("Possibly undefined variables").name = jsStr("*return")
             THEN no
             ELSE yes("Initialization Problem",
                      "The variable <code>" \o nm("Possibly undefined variables")
                          \o "</code> was used on line " \o ln("Possibly undefined variables")
                          \o ", but it was possibly not given a value on a previous line. You cannot use a variable until it has been given a value. Check to make sure that this variable was declared in all of the branches of your decision.",
                      first("Possibly undefined variables").line)
        ELSE IF fires("Unread variables")
        THEN LET isFunction == first("Unread variables").typeName = jsStr("Function")
                 kindName == IF isFunction THEN "function" ELSE "variable"
                 kindBody == IF isFunction THEN "definition" ELSE "value"
             IN  yes("Unused Variable",
                     "The " \o kindName \o " <code>" \o nm("Unread variables")
                         \o "</code> was given a " \o kindBody
                         \o ", but was never used after that.",
                     jsNull)
        ELSE IF fires("Overwritten variables")
        THEN yes("Overwritten Variable",
                 "The variable <code>" \o nm("Overwritten variables")
                     \o "</code> was given a value, but <code>" \o nm("Overwritten variables")
                     \o "</code> was changed on line " \o ln("Overwritten variables")
                     \o " before it was used. One of the times that you gave <code>"
                     \o nm("Overwritten variables") \o "</code> a value was incorrect.",
                 first("Overwritten variables").line)
        ELSE IF fires("Empty iterations")
        THEN IF jsTruthy(first("Empty iterations").name)
             THEN yes("Iterating over empty list",
                      "The variable <code>" \o nm("Empty iterations")
                          \o "</code> was set as an empty list, and then you attempted to use it in an iteration on line "
                          \o ln("Empty iterations")
                          \o ". You should only iterate over non-empty lists.",
                      first("Empty iterations").line)
             ELSE no
        ELSE IF fires("Non-list iterations")
        THEN IF jsTruthy(first("Non-list iterations").name)
             THEN yes("Iterating over non-list",
                      "The variable <code>" \o nm("Non-list iterations")
                          \o "</code> is not a list, but you used it in the iteration on line "
                          \o ln("Non-list iterations")
                          \o ". You should only iterate over sequences like lists.",
                      first("Non-list iterations").line)
             ELSE no
        ELSE IF fires("Incompatible types")
        THEN LET variable == first("Incompatible types")
                 opText == jsToString(OPERATION_DESCRIPTION(variable.operation))
                 left == jsToString(TYPE_DESCRIPTION(variable.left))
                 right == jsToString(TYPE_DESCRIPTION(variable.right))
             IN  yes("Incompatible types",
                     "You used " \o opText \o " operation with a " \o left \o " and a "
                         \o right \o " on line " \o ln("Incompatible types")
                         \o ". But you can't do that with that operator. Make sure both sides of the operator are the right type.",
                     variable.line)
        ELSE IF fires("Read out of scope")
        THEN yes("Read out of scope",
                 "You attempted to read a variable from a different scope on line "
                     \o ln("Read out of scope")
                     \o ". You should only use variables inside the function they were declared in.",
                 first("Read out of scope").line)
        ELSE no

(***************************************************************************)
(* The inputs: errors, findings, reports and suppressions.                 *)
(***************************************************************************)
MaxLine == 2        \* source lines run from 1 to MaxLine
MaxOffset == 2      \* line_offset of the instructor report runs from 0 to MaxOffset
MaxFindings == 2    \* findings of one issue kind

Lines == 1..MaxLine

InstructorFile == "instructor.py"

StringError ==
    [isString |-> TRUE, text |-> "TypeError: x is not a function", hasTpStr |-> FALSE, name |-> "", message |-> "",
     tpname |-> "", isNameError |-> FALSE, args |-> <<>>, excerpt |-> jsUndefined,
     extended |-> jsUndefined, enhanced |-> "", hasTraceback |-> FALSE, traceback |-> <<>>]

PlainError ==
    [StringError EXCEPT !.isString = FALSE, !.text = "", !.name = "TypeError",
                        !.message = "x is not a function"]

SkulptError(tpname, args) ==
    [StringError EXCEPT !.isString = FALSE, !.hasTpStr = TRUE,
                        !.text = tpname \o ": " \o jsToString(jsIndex(args, 0)),
                        !.tpname = tpname, !.args = args,
                        !.enhanced = "<p>" \o tpname \o "</p>"]

WithTraceback(error, filename, lineno) ==
    [error EXCEPT !.hasTraceback = TRUE,
                  !.traceback = <<[filename |-> filename, lineno |-> lineno]>>]

ParseErrors ==
    { [SkulptError("ParseError", <<jsStr("bad input"), jsStr("__main__.py"), jsNum(MaxLine)>> \o rest)
          EXCEPT !.excerpt = jsStr("prin t")] :
        rest \in { <<>>, <<jsNull, jsStr("prin t")>>, <<jsNull, jsStr("")>> } }

StudentErrors ==
    { [SkulptError("NameError", <<jsStr("name '___' is not defined")>>)
          EXCEPT !.isNameError = TRUE],
      [SkulptError("TypeError", <<jsStr("bad operand")>>)
          EXCEPT !.extended = jsStr("Type errors occur when types do not match.")],
      WithTraceback(SkulptError("TypeError", <<jsStr("bad operand")>>), "__main__.py", MaxLine) }

InstructorErrors ==
    { StringError, PlainError }
        \cup { WithTraceback(SkulptError("TypeError", <<jsStr("bad operand")>>), f, l) :
                 f \in { "__main__.py", InstructorFile, "helper.py" }, l \in Lines }

Finding(name, line, typeName) ==
    [name |-> name, line |-> jsNum(line), typeName |-> typeName,
     operation |-> jsStr("Add"), left |-> jsStr("Num"), right |-> jsStr("Str")]

FindingNames == { jsStr("x"), jsStr("*return"), jsStr(""), jsUndefined }

Findings ==
    { Finding(n, l, jsUndefined) : n \in FindingNames, l \in Lines }
        \cup { Finding(jsStr("f"), l, jsStr("Function")) : l \in Lines }
        \cup { [Finding(jsStr("x"), l, jsStr("Num")) EXCEPT !.operation = jsStr("Xor"),
                                                            !.right = jsStr("Dict")] :
                 l \in Lines }

\* The findings that follow the first one of a kind.
RECURSIVE MoreFindings(_)
MoreFindings(n) ==
    IF n = 0 THEN <<>>
    ELSE <<Finding(jsStr("z"), MaxLine + n, jsUndefined)>> \o MoreFindings(n - 1)

FindingLists ==
    { <<>> } \cup { <<f>> \o MoreFindings(n) : f \in Findings, n \in 0..(MaxFindings - 1) }

\* The second kind of an issues map holds this finding or none.
OtherFinding == Finding(jsStr("y"), MaxLine + MaxFindings, jsUndefined)

Kinds ==
    { "Action after return", "Return outside function", "Unconnected blocks",
      "Iteration variable is iteration list", "Undefined variables",
      "Possibly undefined variables", "Unread variables", "Overwritten variables",
      "Empty iterations", "Non-list iterations", "Incompatible types",
      "Read out of scope" }

NoIssues == [k \in Kinds |-> <<>>]

\* The issues maps with findings of at most two kinds.
IssueMaps ==
    { [[NoIssues EXCEPT ![k2] = l2] EXCEPT ![k1] = l1] :
        k1 \in Kinds, k2 \in Kinds, l1 \in FindingLists,
        l2 \in { <<>>, <<OtherFinding>> } }

SuppressedOf(issues) ==
    { K \in SUBSET Kinds : \A k \in K : issues[k] # <<>> }

\* error of a stage that succeeded: there is none to read.
NoError == [StringError EXCEPT !.text = ""]

Complaint(name, priority, line) ==
    [name |-> name, message |-> "Complaint " \o name, line |-> line, priority |-> priority]

SomeComplaints ==
    << Complaint("General", "medium", jsNum(1)),
       Complaint("Gentle", "student", jsUndefined),
       Complaint("Verify", "verifier", jsNull) >>

NoSuppressions ==
    [verifier |-> FALSE, parser |-> FALSE, instructor |-> FALSE, student |-> FALSE,
     noErrors |-> FALSE, analyzer |-> [all |-> FALSE, kinds |-> {}]]

\* A suppression configuration with the complaints and flags of the
\* instructor report that go with it.
Profiles ==
    { [suppressions |-> NoSuppressions,
       complaint |-> <<>>, complete |-> TRUE, hide_correctness |-> FALSE],
      [suppressions |-> NoSuppressions,
       complaint |-> SomeComplaints, complete |-> FALSE, hide_correctness |-> TRUE],
      [suppressions |-> [NoSuppressions EXCEPT !.instructor = TRUE, !.noErrors = TRUE,
                                               !.analyzer.all = TRUE],
       complaint |-> SomeComplaints, complete |-> TRUE, hide_correctness |-> FALSE],
      [suppressions |-> [NoSuppressions EXCEPT !.verifier = TRUE, !.parser = TRUE,
                                               !.student = TRUE,
                                               !.analyzer.kinds = {"Undefined variables"}],
       complaint |-> <<>>, complete |-> FALSE, hide_correctness |-> FALSE] }

Stage(success, error) ==
    [success |-> success, error |-> IF success THEN NoError ELSE error]

InstructorReport(success, error, offset, profile) ==
    [success |-> success, error |-> IF success THEN NoError ELSE error,
     complaint |-> profile.complaint, complete |-> profile.complete,
     hide_correctness |-> profile.hide_correctness,
     filename |-> InstructorFile, line_offset |-> offset]

AnalyzerReport(success, defined, issues) ==
    [success |-> success, error |-> IF success THEN NoError ELSE PlainError,
     issues |-> [defined |-> defined, kinds |-> issues]]

ScenarioIssues ==
    [NoIssues EXCEPT !["Undefined variables"] = <<Finding(jsStr("x"), MaxLine, jsUndefined)>>,
                     !["Unread variables"] = <<OtherFinding>>]

AnalyzerReports ==
    { AnalyzerReport(TRUE, TRUE, ScenarioIssues), AnalyzerReport(TRUE, FALSE, NoIssues),
      AnalyzerReport(FALSE, TRUE, NoIssues) }

AParseError == CHOOSE e \in ParseErrors : Len(e.args) > 3 /\ jsTruthy(jsIndex(e.args, 4))
AStudentError == CHOOSE e \in StudentErrors : e.hasTraceback

\* The instructor stage succeeded; the other stages succeeded or failed (the
\* parser failed where the verifier did, the student's program where the
\* analyzer did).
StageReports(profile) ==
    { [verifier |-> [success |-> v],
       parser |-> Stage(v, AParseError),
       instructor |-> InstructorReport(TRUE, NoError, 0, profile),
       analyzer |-> a,
       student |-> Stage(a.success, AStudentError)] :
        v \in BOOLEAN, a \in AnalyzerReports }

\* An error of the failed instructor stage with the line offset of the
\* instructor's file, which matters to an error raised in that file only.
InstructorFailures ==
    { f \in InstructorErrors \X (0..MaxOffset) :
        \/ f[2] = MaxOffset
        \/ (f[1].hasTraceback /\ f[1].traceback[1].filename = InstructorFile) }

\* The instructor stage failed; the other stages succeeded.
InstructorFailedReports(profile) ==
    { [verifier |-> [success |-> TRUE],
       parser |-> Stage(TRUE, NoError),
       instructor |-> InstructorReport(FALSE, f[1], f[2], profile),
       analyzer |-> AnalyzerReport(TRUE, TRUE, NoIssues),
       student |-> Stage(TRUE, NoError)] :
        f \in InstructorFailures }

\* The analyzer reports issues of at most two kinds; the stages succeeded.
AnalyzerIssueReports ==
    { [verifier |-> [success |-> TRUE],
       parser |-> Stage(TRUE, NoError),
       instructor |-> InstructorReport(TRUE, NoError, 0,
                          CHOOSE pr \in Profiles : pr.complaint = <<>> /\ pr.complete),
       analyzer |-> AnalyzerReport(TRUE, TRUE, issues),
       student |-> Stage(TRUE, NoError)] :
        issues \in IssueMaps }

(***************************************************************************)
(* error(html) (lines 57-62) replaces the content of the area by html: the *)
(* title, body and original elements leave the page but stay the ones the  *)
(* object writes to.  It is defined here, after the definitions that name  *)
(* an argument error.                                                      *)
(***************************************************************************)
error(m, html) ==
    [m EXCEPT !.tag = [replaced |-> TRUE, html |-> html,
                       classes |-> (@.classes \ {"alert-success"}) \cup {"alert-warning"}],
              !.printer = Append(@, print("Execution stopped - there was an error!")),
              !.ret = "undefined"]

(***************************************************************************)
(* The state machine.                                                      *)
(***************************************************************************)
This ==
    [title |-> title, body |-> body, original |-> original,
     originalShown |-> originalShown, status |-> status,
     reports |-> reports, suppressions |-> suppressions,
     tag |-> tag,
     editor |-> <<>>, printer |-> <<>>, server |-> <<>>, trace |-> <<>>,
     ret |-> "undefined"]

\* The state after the call name(args), whose result is the object after it.
Call(name, args, result) ==
    \E m \in {result} :
        /\ title' = m.title
        /\ body' = m.body
        /\ original' = m.original
        /\ originalShown' = m.originalShown
        /\ status' = m.status
        /\ reports' = m.reports
        /\ suppressions' = m.suppressions
        /\ editor' = m.editor
        /\ printer' = m.printer
        /\ server' = m.server
        /\ trace' = m.trace
        /\ tag' = m.tag
        /\ ret' = m.ret
        /\ op' = [name |-> name, args |-> args]
        /\ repeated' = (op.name = name /\ op.args = args)

\* BlockPyFeedback(main, tag): the panel for the original error is hidden;
\* the area holds the elements the constructor found in it.
Constructed ==
    /\ tag = [replaced |-> FALSE, html |-> "", classes |-> {}]
    /\ trace = <<>>
    /\ title = ""
    /\ body = ""
    /\ original = ""
    /\ originalShown = FALSE
    /\ status = "none"
    /\ editor = <<>>
    /\ printer = <<>>
    /\ server = <<>>
    /\ ret = "undefined"
    /\ op = [name |-> "BlockPyFeedback", args |-> <<>>]
    /\ repeated = FALSE

Init ==
    /\ Constructed
    /\ \E profile \in Profiles :
        /\ suppressions = profile.suppressions
        /\ reports \in StageReports(profile)
                        \cup (IF /\ profile.suppressions = NoSuppressions
                                 /\ profile.complaint # <<>>
                              THEN InstructorFailedReports(profile) ELSE {})

InitAnalyzer ==
    /\ Constructed
    /\ reports \in AnalyzerIssueReports
    /\ \E K \in SuppressedOf(reports.analyzer.issues.kinds), all \in BOOLEAN :
        suppressions = [NoSuppressions EXCEPT !.analyzer = [all |-> all, kinds |-> K]]

LineArgs == { jsNull, jsUndefined, jsNum(MaxLine) }
ErrorArgs == { StringError, PlainError }
NameArgs == { "Explain", "No errors" }
CategoryArgs == { "Instructor", "analyzer" }
MessageArgs == { "<b>message</b>" }

HtmlArgs == { "<p>warning</p>" }

BuildTraceTable == Call("buildTraceTable", <<>>, buildTraceTable(This))

Error == \E html \in HtmlArgs : Call("error", <<html>>, error(This, html))

Clear ==
    \E printerArg \in BOOLEAN : Call("clear", <<printerArg>>, clear(This, printerArg))

ClearEditorErrors ==
    Call("clearEditorErrors", <<>>, clearEditorErrors(This))

EditorError ==
    \E e \in ErrorArgs, message \in MessageArgs, line \in LineArgs :
        Call("editorError", <<e, message, line>>, editorError(This, e, message, line))

Complete == Call("complete", <<>>, complete(This))

Finished == Call("finished", <<>>, finished(This))

NoErrors == Call("noErrors", <<>>, noErrors(This))

SyntaxError ==
    \E e \in ErrorArgs, message \in MessageArgs, line \in LineArgs :
        Call("syntaxError", <<e, message, line>>, syntaxError(This, e, message, line))

SemanticError ==
    \E name \in {"Unused Variable"}, message \in MessageArgs, line \in LineArgs :
        Call("semanticError", <<name, message, line>>,
             semanticError(This, name, message, line))

InternalError ==
    \E e \in ErrorArgs, name \in {"Analyzer Error"}, message \in MessageArgs :
        Call("internalError", <<e, name, message>>, internalError(This, e, name, message))

InstructorFeedback ==
    \E name \in {"Explain"}, message \in MessageArgs, line \in LineArgs :
        Call("instructorFeedback", <<name, message, line>>,
             instructorFeedback(This, name, message, line))

EmptyProgram == Call("emptyProgram", <<>>, emptyProgram(This))

PrintError ==
    \E e \in StudentErrors \cup {AParseError} :
        Call("printError", <<e>>, printError(This, e))

\* The instructor report holds an error when the stage failed (line 382).
PresentInstructorError ==
    /\ ~reports.instructor.success
    /\ Call("presentInstructorError", <<>>, presentInstructorError(This))

PresentFeedback ==
    \E category \in CategoryArgs, label \in NameArgs, message \in MessageArgs,
       line \in LineArgs :
        Call("presentFeedback", <<category, label, message, line>>,
             presentFeedback(This, category, label, message, line))

ConvertSkulptSyntax ==
    \E e \in ParseErrors :
        Call("convertSkulptSyntax", <<e>>, convertSkulptSyntax(This, e))

PresentAnalyzerFeedback ==
    Call("presentAnalyzerFeedback", <<>>, presentAnalyzerFeedback(This))

Next ==
    \/ BuildTraceTable
    \/ Error
    \/ Clear
    \/ ClearEditorErrors
    \/ EditorError
    \/ Complete
    \/ Finished
    \/ NoErrors
    \/ SyntaxError
    \/ SemanticError
    \/ InternalError
    \/ InstructorFeedback
    \/ EmptyProgram
    \/ PrintError
    \/ PresentInstructorError
    \/ PresentFeedback
    \/ ConvertSkulptSyntax
    \/ PresentAnalyzerFeedback

Spec == Init /\ [][Next]_vars

NextAnalyzer == PresentAnalyzerFeedback

SpecAnalyzer == InitAnalyzer /\ [][NextAnalyzer]_vars

(***************************************************************************)
(* What the last call presented: the outcome it returned, the title and    *)
(* the body it set, and the lines it had the editor highlight.             *)
(***************************************************************************)
Directive ==
    [outcome |-> ret, label |-> title, message |-> body,
     line |-> SelectSeq(editor, LAMBDA c : c.fn = "highlightError")]

Outcomes ==
    { "verifier", "parser", "instructor", "analyzer", "student", "no-errors",
      "success", "completed" }

AllStagesSucceeded ==
    /\ reports.verifier.success
    /\ reports.parser.success
    /\ reports.instructor.success
    /\ reports.analyzer.success
    /\ reports.student.success

InstructorFileError ==
    /\ ~reports.instructor.success
    /\ reports.instructor.error.hasTraceback
    /\ reports.instructor.error.traceback[1].filename = reports.instructor.filename

\* C1: every call of presentFeedback returns an outcome of the closed set
\* verifier, parser, instructor, analyzer, student, no-errors, success,
\* completed; it never returns nothing.
C1_OutcomeOfClosedSet ==
    op.name = "presentFeedback" => ret \in Outcomes

\* C2: when the verifier stage failed and is not suppressed, presentFeedback
\* returns "verifier" and presents the blank program, whatever the other
\* reports hold.
C2_VerifierFailureWins ==
    (op.name = "presentFeedback" /\ ~reports.verifier.success /\ ~suppressions.verifier)
        => (ret = "verifier" /\ title = "Blank Program")

\* The order in which the classifier is to evaluate the issue kinds.
CanonicalOrder ==
    << "Action after return", "Return outside function", "Unconnected blocks",
       "Iteration variable is iteration list", "Undefined variables",
       "Possibly undefined variables", "Unread variables", "Overwritten variables",
       "Empty iterations", "Non-list iterations", "Incompatible types",
       "Read out of scope" >>

\* The first kind in canonical order that is not suppressed and has a
\* finding; "" when there is none.
FirstReported(issues, suppressed) ==
    LET idx == { i \in 1..Len(CanonicalOrder) :
                   /\ CanonicalOrder[i] \notin suppressed
                   /\ issues[CanonicalOrder[i]] # <<>> }
    IN  IF idx = {} THEN ""
        ELSE CanonicalOrder[CHOOSE i \in idx : \A j \in idx : i <= j]

\* The label under which each kind is presented.
LabelOf(kind) ==
    CASE kind = "Iteration variable is iteration list" -> "Iteration Problem"
      [] kind = "Undefined variables" -> "Initialization Problem"
      [] kind = "Possibly undefined variables" -> "Initialization Problem"
      [] kind = "Unread variables" -> "Unused Variable"
      [] kind = "Overwritten variables" -> "Overwritten Variable"
      [] kind = "Empty iterations" -> "Iterating over empty list"
      [] kind = "Non-list iterations" -> "Iterating over non-list"
      [] OTHER -> kind

OnlyUndefinedAndUnread ==
    /\ reports.analyzer.issues.defined
    /\ \A k \in Kinds :
          (reports.analyzer.issues.kinds[k] # <<>>)
              <=> k \in { "Undefined variables", "Unread variables" }

\* C3: the directive the classifier returns is built from the first finding
\* of the first kind, in canonical order, that is not suppressed and has a
\* finding: it carries the label of that kind and the line of that finding
\* (no line for Unread variables).  With findings of Undefined variables and
\* Unread variables only, neither suppressed, the label is Initialization
\* Problem and the line is that of the Undefined-variables finding.
C3_FirstKindInCanonicalOrder ==
    (op.name = "presentAnalyzerFeedback" /\ ret = "true") =>
        LET issues == reports.analyzer.issues.kinds
            k == FirstReported(issues, suppressions.analyzer.kinds)
        IN  /\ k # ""
            /\ title = LabelOf(k)
            /\ status = "semantic"
            /\ Directive.line =
                   IF k = "Unread variables" THEN <<>>
                   ELSE <<highlightError(jsMinusOne(issues[k][1].line))>>
            /\ (OnlyUndefinedAndUnread /\ suppressions.analyzer.kinds = {})
                   => title = "Initialization Problem"

C3_Witness ==
    /\ op.name = "presentAnalyzerFeedback"
    /\ ret = "true"
    /\ OnlyUndefinedAndUnread
    /\ suppressions.analyzer.kinds = {}
    /\ Len(reports.analyzer.issues.kinds["Undefined variables"]) > 1
    /\ title = "Initialization Problem"
    /\ Directive.line =
          <<highlightError(jsMinusOne(
                reports.analyzer.issues.kinds["Undefined variables"][1].line))>>

\* What a call of the classifier leaves behind, the reports and the
\* suppressions aside.
Presented(m) ==
    [title |-> m.title, body |-> m.body, status |-> m.status,
     originalShown |-> m.originalShown, editor |-> m.editor, printer |-> m.printer,
     server |-> m.server, ret |-> m.ret]

\* The state with the findings of kind K emptied and K not suppressed.
WithKindEmptied(K) ==
    [This EXCEPT !.reports.analyzer.issues.kinds[K] = <<>>,
                 !.suppressions.analyzer.kinds = @ \ {K}]

\* C4: suppressing one issue kind removes that kind from consideration and
\* nothing else: the classifier's result with K suppressed is its result on
\* the same issues with the findings of K emptied and K not suppressed.
C4_SuppressionIsRemoval ==
    op.name = "presentAnalyzerFeedback" =>
        \A K \in suppressions.analyzer.kinds :
            Presented([This EXCEPT !.editor = editor, !.printer = printer,
                                   !.server = server, !.ret = ret])
                = Presented(presentAnalyzerFeedback(WithKindEmptied(K)))

C4_Witness ==
    /\ op.name = "presentAnalyzerFeedback"
    /\ OnlyUndefinedAndUnread
    /\ suppressions.analyzer = [all |-> FALSE, kinds |-> {"Undefined variables"}]
    /\ ret = "true"
    /\ title = "Unused Variable"
    /\ Directive.line = <<>>

\* C5: when the instructor report hides correctness, presentFeedback returns
\* the no-errors outcome, also when the analyzer or the student report holds
\* a failure.
C5_HideCorrectnessGivesNoErrors ==
    (op.name = "presentFeedback" /\ reports.instructor.hide_correctness)
        => (ret \in { "no-errors", "no errors" } /\ title = "Ran")

\* C6: when every stage succeeded, there is no complaint, correctness is not
\* hidden and the instructor report is complete, presentFeedback returns
\* "success" and presents Complete!.
C6_CompleteGivesSuccess ==
    ( /\ op.name = "presentFeedback"
      /\ AllStagesSucceeded
      /\ reports.instructor.complaint = <<>>
      /\ ~reports.instructor.hide_correctness
      /\ reports.instructor.complete )
        => (ret = "success" /\ title = "Complete!")

\* C7: two calls of presentFeedback in succession with the same arguments, on
\* the same reports and suppressions, present the same directive: the same
\* outcome, label, message and line.
C7_Idempotent ==
    [][ ( /\ op.name = "presentFeedback"
          /\ op'.name = "presentFeedback"
          /\ op'.args = op.args )
        => Directive' = Directive ]_vars

C7_Witness ==
    /\ op.name = "presentFeedback"
    /\ repeated
    /\ InstructorFileError
    /\ reports.instructor.line_offset > 0
    /\ reports.instructor.error.traceback[1].lineno >= reports.instructor.line_offset
    /\ reports.instructor.complaint # <<>>

\* C8: a call of presentFeedback leaves the reports (the complaints of the
\* instructor report, their order, and the line of the instructor error's
\* first traceback entry among them) and the suppressions as they were.
C8_InputsUnchanged ==
    [][ op'.name = "presentFeedback"
        => (reports' = reports /\ suppressions' = suppressions) ]_vars

C8_Witness ==
    /\ op.name = "presentFeedback"
    /\ InstructorFileError
    /\ reports.instructor.line_offset = MaxOffset
    /\ reports.instructor.error.traceback[1].lineno = MaxLine
    /\ reports.instructor.complaint = SomeComplaints

\* C9: one call makes at most one presentation; presentFeedback makes
\* exactly one, that of its message, and no presentation of an instructor
\* error, a complaint, an analyzer issue, a student error, no errors or
\* success follows it in the same call.
C9_OnePresentationPerCall ==
    /\ Len(server) <= 1
    /\ Len(printer) <= 1
    /\ op.name = "presentFeedback" =>
          /\ Len(server) = 1
          /\ server[1] = <<"feedback", op.args[1] \o "|" \o op.args[2], op.args[3]>>
          /\ body = op.args[3]
          /\ printer = <<>>

C9_Witness ==
    /\ op.name = "presentFeedback"
    /\ ~reports.instructor.success
    /\ ~reports.instructor.error.hasTraceback
    /\ reports.instructor.complaint # <<>>
    /\ Len(server) = 1

\* C10: whenever the error of a failed instructor stage is presented and it
\* is not an error of the student's file, an internal error is presented
\* (status internal) and exactly one Internal Error event is logged.
C10_InternalFailureSurfaced ==
    ( /\ op.name = "presentInstructorError"
      /\ ~( /\ reports.instructor.error.hasTraceback
            /\ reports.instructor.error.traceback[1].filename = "__main__.py" ) )
        => /\ status = "internal"
           /\ Len(server) = 1
           /\ server[1][2] = "Internal Error"

\* C11: when the instructor stage failed and the first traceback entry is of
\* the instructor's file, presentInstructorError presents Feedback Engine
\* Error exactly when lineno - line_offset is negative, and then leaves
\* lineno as it was; otherwise it presents Instructor Feedback Error, with
\* lineno lowered by line_offset.
C11_EngineErrorIffNegativeLine ==
    [][ (op'.name = "presentInstructorError" /\ InstructorFileError) =>
            LET lineno == reports.instructor.error.traceback[1].lineno
                offset == reports.instructor.line_offset
                linenoAfter == reports'.instructor.error.traceback[1].lineno
            IN  /\ status' = "internal"
                /\ ret' = "instructor"
                /\ (title' = "Feedback Engine Error") <=> (lineno - offset < 0)
                /\ (title' = "Instructor Feedback Error") <=> (lineno - offset >= 0)
                /\ linenoAfter = IF lineno - offset < 0 THEN lineno ELSE lineno - offset
      ]_vars

C11_Witness ==
    /\ op.name = "presentInstructorError"
    /\ InstructorFileError
    /\ title = "Feedback Engine Error"
    /\ status = "internal"
    /\ reports.instructor.error.traceback[1].lineno - reports.instructor.line_offset < 0

\* The stage a category names is suppressed as a whole.
StageSuppressed(category) ==
    LET stage == toLowerCase(category)
    IN  CASE stage = "verifier" -> suppressions.verifier
          [] stage = "parser" -> suppressions.parser
          [] stage = "instructor" -> suppressions.instructor
          [] stage = "analyzer" -> suppressions.analyzer.all
          [] stage = "student" -> suppressions.student
          [] OTHER -> FALSE

\* C12: a suppressed stage never produces a directive: presentFeedback makes
\* no presentation for a stage whose suppression is true; with the
\* instructor stage suppressed no instructor feedback is presented.
C12_SuppressedStageSilent ==
    (op.name = "presentFeedback" /\ StageSuppressed(op.args[1]))
        => (server = <<>> /\ status # op.args[1])

\* The operations that take a line, and the line each was called with.
LineOperations ==
    { "presentFeedback", "semanticError", "instructorFeedback", "syntaxError",
      "editorError" }

LineArgument == IF op.name = "presentFeedback" THEN op.args[4] ELSE op.args[3]

\* C13: an operation that takes a line has the editor highlight exactly
\* line - 1 when a line is given, and makes no call to highlightError when
\* the line is null or undefined.
C13_HighlightLineMinusOne ==
    op.name \in LineOperations =>
        Directive.line =
            IF LineArgument.t = "number"
            THEN <<highlightError(jsNum(LineArgument.n - 1))>>
            ELSE <<>>

\* The analyzer step of the cascade presents nothing.
AnalyzerSilent ==
    \/ reports.instructor.hide_correctness
    \/ suppressions.analyzer.all
    \/ /\ reports.analyzer.success
       /\ \/ ~reports.analyzer.issues.defined
          \/ FirstReported(reports.analyzer.issues.kinds, suppressions.analyzer.kinds) = ""

\* No step of the cascade before the default fallback fires.
NoEarlierStepFires ==
    /\ suppressions.verifier \/ reports.verifier.success
    /\ suppressions.parser \/ reports.parser.success
    /\ reports.instructor.success
    /\ reports.instructor.complaint = <<>>
    /\ AnalyzerSilent
    /\ suppressions.student \/ reports.student.success
    /\ ~reports.instructor.hide_correctness
    /\ suppressions.instructor \/ ~reports.instructor.complete

\* C14: when no earlier step fires, presentFeedback presents the generic
\* no-errors directive if "no errors" is not suppressed, and otherwise
\* returns "completed" having presented and logged nothing.
C14_DefaultFallback ==
    (op.name = "presentFeedback" /\ NoEarlierStepFires) =>
        IF ~suppressions.noErrors
        THEN ret \in { "no-errors", "no errors" } /\ title = "Ran"
        ELSE ret = "completed" /\ server = <<>>

\* The rule of the kind declines to report its first finding.
Declines(kind, finding) ==
    \/ kind = "Possibly undefined variables" /\ finding.name = jsStr("*return")
    \/ /\ kind \in { "Empty iterations", "Non-list iterations" }
       /\ finding.name \in { jsUndefined, jsNull, jsStr("") }

\* A kind after the given one in canonical order has a finding and is not
\* suppressed.
LaterKindReported(kind) ==
    \E i, j \in 1..Len(CanonicalOrder) :
        /\ CanonicalOrder[i] = kind
        /\ i < j
        /\ CanonicalOrder[j] \notin suppressions.analyzer.kinds
        /\ reports.analyzer.issues.kinds[CanonicalOrder[j]] # <<>>

\* C15: the classifier commits to the first kind, in canonical order, that is
\* not suppressed and has a finding: when the rule of that kind declines
\* (Possibly undefined variables with a first finding named *return, Empty
\* iterations or Non-list iterations with a first finding without a name) it
\* returns false and presents nothing, whatever the later kinds hold.
C15_CommitsToFirstKind ==
    ( /\ op.name = "presentAnalyzerFeedback"
      /\ reports.analyzer.issues.defined
      /\ ~suppressions.analyzer.all ) =>
        LET issues == reports.analyzer.issues.kinds
            k == FirstReported(issues, suppressions.analyzer.kinds)
        IN  IF k = "" THEN ret = "false"
            ELSE IF Declines(k, issues[k][1])
            THEN ret = "false" /\ server = <<>> /\ editor = <<>> /\ printer = <<>>
            ELSE ret = "true"

C15_Witness ==
    /\ op.name = "presentAnalyzerFeedback"
    /\ reports.analyzer.issues.defined
    /\ ~suppressions.analyzer.all
    /\ LET issues == reports.analyzer.issues.kinds
           k == FirstReported(issues, suppressions.analyzer.kinds)
       IN  /\ k = "Empty iterations"
           /\ issues[k][1].name = jsUndefined
           /\ LaterKindReported(k)
    /\ ret = "false"
    /\ server = <<>>

====
